---- MODULE Spec2Model ----
(***************************************************************************)
(* Model of market_analysis.py: configuration load, calendar gate,         *)
(* universe fetch, the 4-worker fan-out of analyze_stock, the stable       *)
(* descending sort, and the single publish request.                        *)
(*                                                                         *)
(* Number representation.  Prices and EPS are integers.  The provider's    *)
(* fractions (earningsGrowth, revenueGrowth, dividendYield) are carried as *)
(* integer hundredths: the integer r stands for the fraction r/100, so     *)
(* that `x * 100` of the code is the integer Times100(x).  The upside is   *)
(* an exact fraction [n, d] in lowest terms with d > 0.  Floating-point    *)
(* rounding and NaN are not modelled.                                      *)
(***************************************************************************)
EXTENDS Integers, Sequences, FiniteSets, TLC

VARIABLES
  pc,           \* position of the main thread
  exit_code,    \* NoExit while running, else the process exit status
  page,         \* what the universe source returned to fetch_target_list
  target_list,  \* list of (code, name) pairs returned by fetch_target_list
  task,         \* task[i]: "queued" | "running" | "done" for the i-th map item
  info,         \* info[i]: the provider's answer seen by the i-th task
  futures,      \* futures[i]: what the i-th analyze_stock call produced
  results,      \* the non-None results, in collection order
  sorted_data,  \* the list handed to build_payload
  posts,        \* number of requests.post calls issued
  status        \* outcome of the publish request

vars == <<pc, exit_code, page, target_list, task, info, futures, results,
          sorted_data, posts, status>>

\* ------------------------------------------------------------------ values

\* Python values read from the provider's dict, tagged by type.
None == [t |-> "None"]
Missing == [t |-> "missing"]
Str == [t |-> "str"]
Num(n) == [t |-> "num", v |-> n]
IsNum(x) == x.t = "num"

\* Outcome of a call that let an exception escape.
Raise == [t |-> "raise"]
\* Placeholder of a future that has not completed.
Pending == [t |-> "pending"]

NoExit == [t |-> "running"]
Exit(n) == [t |-> "exit", v |-> n]

\* ------------------------------------------------------------- arithmetic

Abs(n) == IF n < 0 THEN -n ELSE n

RECURSIVE GCD(_, _)
GCD(a, b) == IF b = 0 THEN a ELSE GCD(b, a % b)

\* The exact quotient n/d (d # 0) in lowest terms with a positive denominator.
Frac(n, d) ==
  LET g == GCD(Abs(n), Abs(d))
      s == IF d < 0 THEN -1 ELSE 1
  IN [n |-> (s * n) \div g, d |-> (s * d) \div g]

FracGT(a, b) == a.n * b.d > b.n * a.d
FracGE(a, b) == a.n * b.d >= b.n * a.d

\* x * 100 for a fraction x carried as integer hundredths.
Times100(x) == (x * 100) \div 100

Min(a, b) == IF a < b THEN a ELSE b

\* ---------------------------------------------------------- analyze_stock

DEFAULT_GROWTH == 5
GROWTH_CAP == 25
UPSIDE_LIMIT == 1000

\* info.get(key)
Get(d, key) == IF d[key] = Missing THEN None ELSE d[key]
\* info.get(key, default)
GetDefault(d, key, default) == IF d[key] = Missing THEN default ELSE d[key]

\* Mutant of ResolveEps: falls back to trailingEps also when forwardEps <= 0.
ResolveEpsSkipNonPositive(d) ==
  IF Get(d, "forwardEps") = None
     \/ (IsNum(Get(d, "forwardEps")) /\ Get(d, "forwardEps").v <= 0)
  THEN Get(d, "trailingEps")
  ELSE Get(d, "forwardEps")

\* Lines 70-72: forwardEps, else trailingEps.
ResolveEps(d) ==
  IF Get(d, "forwardEps") = None THEN Get(d, "trailingEps")
  ELSE Get(d, "forwardEps")

\* Lines 78-82: earningsGrowth, else revenueGrowth, else the default.
ResolveGrowth(d) ==
  IF Get(d, "earningsGrowth") = None
  THEN IF Get(d, "revenueGrowth") = None THEN Num(DEFAULT_GROWTH)
       ELSE Get(d, "revenueGrowth")
  ELSE Get(d, "earningsGrowth")

\* Lines 85-86: dividendYield, 0 when the key is missing or its value None.
ResolveYield(d) ==
  IF GetDefault(d, "dividendYield", Num(0)) = None THEN Num(0)
  ELSE GetDefault(d, "dividendYield", Num(0))

\* Mutant of CappedGrowth: the floor at 0 is forgotten.
CappedGrowthNoFloor(growth_pct) == Min(growth_pct, GROWTH_CAP)

\* Lines 93-94: min(growth_pct, 25.0), then floored at 0.
CappedGrowth(growth_pct) ==
  IF Min(growth_pct, GROWTH_CAP) < 0 THEN 0 ELSE Min(growth_pct, GROWTH_CAP)

\* Mutant of IsAnomaly: the outlier filter is dropped.
IsAnomalyNever(upside) == FALSE

\* Line 103: upside > 1000.
IsAnomaly(upside) == FracGT(upside, Frac(UPSIDE_LIMIT, 1))

\* Lines 88-111: the computation once price, eps, growth and yield are read.
\* A str operand raises TypeError at its first arithmetic or comparison with
\* a number; price 0 raises ZeroDivisionError.
Valuate(code, jp_name, price, eps, growth_raw, yield_raw) ==
  IF ~IsNum(growth_raw) THEN Raise          \* min(str, 25.0)
  ELSE IF ~IsNum(yield_raw) THEN Raise      \* capped_growth + str
  ELSE
    LET growth_pct == Times100(growth_raw.v)
        yield_pct == Times100(yield_raw.v)
        capped_growth == CappedGrowth(growth_pct)
        fair_value == eps.v * (capped_growth + yield_pct)
    IN IF fair_value <= 0 THEN None
       ELSE IF ~IsNum(price) THEN Raise     \* fair_value - str
       ELSE IF price.v = 0 THEN Raise       \* division by zero
       ELSE
         LET upside == Frac((fair_value - price.v) * 100, price.v)
         IN IF IsAnomaly(upside) THEN None
            ELSE [t |-> "result", id |-> code, label |-> jp_name,
                  val |-> price.v, target |-> fair_value, diff |-> upside]

\* Lines 55-111: the body of the outer try.  stock is what yf.Ticker(...)
\* gives: [raises |-> reading .info raises, info |-> the dict].
TryBody(code, jp_name, stock) ==
  IF stock.raises THEN None
  ELSE
    LET d == stock.info
        price == Get(d, "currentPrice")
        eps == ResolveEps(d)
    IN IF price = None THEN None
       ELSE IF eps = None THEN None
       ELSE IF ~IsNum(eps) THEN Raise       \* str <= 0
       ELSE IF eps.v <= 0 THEN None
       ELSE Valuate(code, jp_name, price, eps, ResolveGrowth(d), ResolveYield(d))

\* Mutant of analyze_stock: the outer except clause is missing.
analyze_stock_uncaught(args, stock) == TryBody(args[1], args[2], stock)

\* Lines 47-114: the outer `except Exception: return None` around the body.
analyze_stock(args, stock) ==
  IF TryBody(args[1], args[2], stock) = Raise THEN None
  ELSE TryBody(args[1], args[2], stock)

\* ------------------------------------------------------ fetch_target_list

Text(s) == [t |-> "text", s |-> s]

DigitChars == <<"0", "1", "2", "3", "4", "5", "6", "7", "8", "9">>

RECURSIVE Digits(_)
Digits(n) ==
  IF n < 10 THEN <<DigitChars[n + 1]>>
  ELSE Digits(n \div 10) \o <<DigitChars[(n % 10) + 1]>>

\* astype(str) of one cell: an integer cell prints in decimal.
AsStr(cell) == IF IsNum(cell) THEN Digits(cell.v) ELSE cell.s

IsDigit(c) == \E k \in 1..10 : DigitChars[k] = c

\* str.match(r'\d{4}'): anchored at the start of the string.
Match4(s) == Len(s) >= 4 /\ \A k \in 1..4 : IsDigit(s[k])

RECURSIVE ZFill4(_)
\* str.zfill(4)
ZFill4(s) == IF Len(s) >= 4 THEN s ELSE ZFill4(<<"0">> \o s)

\* A parsed table: its column count and its rows (each a tuple of cells).
Column(df, c) == [k \in 1..Len(df.rows) |-> df.rows[k][c]]

\* Line 128: the table has >= 2 columns and a first-column cell matches.
Qualifies(df) ==
  df.ncols >= 2 /\ \E k \in 1..Len(df.rows) : Match4(AsStr(df.rows[k][1]))

\* Lines 126-130: index of the first qualifying table, 0 for target_df None.
FirstQualifying(dfs) ==
  IF \E k \in 1..Len(dfs) : Qualifies(dfs[k])
  THEN CHOOSE k \in 1..Len(dfs) :
         Qualifies(dfs[k]) /\ \A j \in 1..(k - 1) : ~Qualifies(dfs[j])
  ELSE 0

\* Mutant of PickTable: no fallback to the second table.
PickTableNoFallback(dfs) == FirstQualifying(dfs)

\* Lines 126-136: the table used, 0 when sys.exit(1) is reached.
PickTable(dfs) ==
  IF FirstQualifying(dfs) # 0 THEN FirstQualifying(dfs)
  ELSE IF Len(dfs) > 1 THEN 2
  ELSE 0

\* Lines 138-141: list(zip(codes, names)).
ZipCodesNames(df) ==
  [k \in 1..Len(df.rows) |->
     <<ZFill4(AsStr(Column(df, 1)[k])), AsStr(Column(df, 2)[k])>>]

\* Lines 121-145.  resp is what the universe source gives:
\* [raises |-> requests.get or pd.read_html raises, dfs |-> parsed tables].
\* Returns Exit(1) or [t |-> "list", v |-> the pairs].
fetch_target_list(resp) ==
  IF resp.raises THEN Exit(1)
  ELSE IF PickTable(resp.dfs) = 0 THEN Exit(1)
  ELSE IF resp.dfs[PickTable(resp.dfs)].ncols < 2 THEN Exit(1)  \* IndexError
  ELSE [t |-> "list", v |-> ZipCodesNames(resp.dfs[PickTable(resp.dfs)])]

\* ------------------------------------------------------------- the inputs

MaxRows == 5
MaxTables == 2

\* Row k of the index page's constituents table: a 4-digit code and a name.
CodeRow(k) == <<Num(1300 + k), Text(<<"n">> \o Digits(k))>>

\* The constituents table with n rows.
CodeTable(n) == [ncols |-> 2, rows |-> [k \in 1..n |-> CodeRow(k)]]
\* A one-column layout table.
NavTable == [ncols |-> 1, rows |-> <<<<Text(<<"m", "e", "n", "u">>)>>>>]
\* A two-column table of text without any code.
NoteTable ==
  [ncols |-> 2,
   rows |-> << <<Text(<<"a">>), Text(<<"b">>)>>, <<Num(13), Text(<<"c">>)>> >>]
\* A two-column table without rows.
EmptyTable == [ncols |-> 2, rows |-> <<>>]
\* A one-column table of codes.
CodeListTable == [ncols |-> 1, rows |-> <<<<Num(7203)>>, <<Num(6758)>>>>]
\* A three-column table whose codes come after a text row.
WideTable ==
  [ncols |-> 3,
   rows |-> << <<Text(<<"x">>), Text(<<"y">>), Text(<<"z">>)>>,
               <<Num(99840), Text(<<"s">>), Num(1)>> >>]

Tables ==
  {NavTable, NoteTable, EmptyTable, CodeListTable, WideTable}
    \cup {CodeTable(n) : n \in 1..MaxRows}

TableLists == UNION {[1..n -> Tables] : n \in 1..MaxTables}

\* What the universe source can give: an error, or at least one parsed table
\* (pd.read_html raises when the page holds none).
PageError == [raises |-> TRUE, dfs |-> <<>>]
Page(dfs) == [raises |-> FALSE, dfs |-> dfs]

\* The pages drawn when fetch_target_list is checked on its own.
Pages == {PageError} \cup {Page(l) : l \in TableLists}

\* The pages drawn during a full run.
RunPages ==
  {PageError, Page(<<NavTable>>), Page(<<NavTable, EmptyTable>>),
   Page(<<NoteTable, NoteTable>>)}
    \cup {Page(<<NavTable, CodeTable(n)>>) : n \in 1..MaxRows}

NoPage == Page(<<>>)

Dict(price, feps, teps, eg, rg, dy) ==
  [currentPrice |-> price, forwardEps |-> feps, trailingEps |-> teps,
   earningsGrowth |-> eg, revenueGrowth |-> rg, dividendYield |-> dy]

Stock(d) == [raises |-> FALSE, info |-> d]
FetchError == [raises |-> TRUE, info |-> Dict(None, None, None, None, None, None)]

\* The provider's answers drawn during a full run.
RunStocks ==
  { FetchError,
    Stock(Dict(Num(1000), Num(50), None, Num(30), None, Num(2))),     \* +35
    Stock(Dict(Num(2000), None, Num(100), Num(30), None, Num(2))),    \* +35
    Stock(Dict(Num(1000), Num(50), None, None, None, Missing)),       \* -75
    Stock(Dict(Str, Num(50), None, None, None, None)),                \* TypeError
    Stock(Dict(Num(0), Num(50), None, None, None, None)) }            \* division by 0

NoStock == FetchError

\* The provider's answers drawn when analyze_stock is checked on its own.
Prices == {None, Missing, Str, Num(-100), Num(-1), Num(0), Num(1), Num(100), Num(1000)}
ForwardEpsValues == {None, Missing, Str, Num(-1), Num(0), Num(1), Num(50)}
TrailingEpsValues == {None, Str, Num(-2), Num(3)}
EarningsGrowthValues == {None, Str, Num(-10), Num(0), Num(7), Num(25), Num(30), Num(300)}
RevenueGrowthValues == {None, Missing, Num(-5), Num(10)}
YieldValues == {None, Missing, Str, Num(-30), Num(0), Num(2), Num(20)}

AllStocks ==
  {FetchError} \cup
  {Stock(Dict(p, fe, te, eg, rg, dy)) :
     p \in Prices, fe \in ForwardEpsValues, te \in TrailingEpsValues,
     eg \in EarningsGrowthValues, rg \in RevenueGrowthValues, dy \in YieldValues}

\* ---------------------------------------------------------------- the run

max_workers == 4

Items == 1..Len(target_list)

Running == {i \in Items : task[i] = "running"}

\* list(executor.map(...)) has every result: every item has completed.
AllDone == \A i \in Items : task[i] = "done"

\* Lines 240-242: the results that are not None, in the order of the map.
RECURSIVE NotNone(_)
NotNone(fs) ==
  IF fs = <<>> THEN <<>>
  ELSE IF Head(fs) = None THEN NotNone(Tail(fs))
  ELSE <<Head(fs)>> \o NotNone(Tail(fs))

\* Insertion of x after every element whose key is >= x's key.
RECURSIVE InsertDesc(_, _)
InsertDesc(s, x) ==
  IF s = <<>> THEN <<x>>
  ELSE IF FracGE(Head(s).diff, x.diff) THEN <<Head(s)>> \o InsertDesc(Tail(s), x)
  ELSE <<x>> \o s

\* Insertion of x before the elements whose key equals x's key.
RECURSIVE InsertDescBeforeTies(_, _)
InsertDescBeforeTies(s, x) ==
  IF s = <<>> THEN <<x>>
  ELSE IF FracGT(Head(s).diff, x.diff)
       THEN <<Head(s)>> \o InsertDescBeforeTies(Tail(s), x)
  ELSE <<x>> \o s

RECURSIVE SortFrom(_, _)
SortFrom(acc, rest) ==
  IF rest = <<>> THEN acc ELSE SortFrom(InsertDesc(acc, Head(rest)), Tail(rest))

RECURSIVE SortFromTiesReversed(_, _)
SortFromTiesReversed(acc, rest) ==
  IF rest = <<>> THEN acc
  ELSE SortFromTiesReversed(InsertDescBeforeTies(acc, Head(rest)), Tail(rest))

\* Mutant of SortedDesc: a descending sort that reverses equal keys.
SortedDescTiesReversed(rs) == SortFromTiesReversed(<<>>, rs)

\* Line 250: sorted(results, key=diff, reverse=True), a stable sort.
SortedDesc(rs) == SortFrom(<<>>, rs)

\* Mutant of IsEmpty: the empty-result stop is skipped.
IsEmptyNever(rs) == FALSE

\* Line 246: `not results`.
IsEmpty(rs) == Len(rs) = 0

\* Mutant of SyncOk: every 2xx status counts as success.
SyncOkAny2xx(code) == code >= 200 /\ code < 300

\* Line 217: res.status_code == 200.
SyncOk(code) == code = 200

\* Mutant of Attempts: a failed request is sent a second time.
AttemptsWithRetry(answer) == IF answer = 200 THEN 1 ELSE 2

\* Lines 211-216: one requests.post call, whatever the answer.
Attempts(answer) == 1

\* What the publish target can answer: a status code, or 0 for a
\* connection-level failure (requests.post raises).
ConnectionError == 0
Answers == {ConnectionError, 200, 201, 404, 500}

NoStatus == -1

Init ==
  /\ pc = "config"
  /\ exit_code = NoExit
  /\ page = NoPage
  /\ target_list = <<>>
  /\ task = <<>>
  /\ info = <<>>
  /\ futures = <<>>
  /\ results = <<>>
  /\ sorted_data = <<>>
  /\ posts = 0
  /\ status = NoStatus

\* Lines 15-29: the configuration is read at import; a missing variable or
\* key, or malformed JSON, exits 1.
LoadConfig(cfg) ==
  /\ pc = "config"
  /\ IF cfg = "ok"
     THEN pc' = "calendar" /\ UNCHANGED exit_code
     ELSE pc' = "exited" /\ exit_code' = Exit(1)
  /\ UNCHANGED <<page, target_list, task, info, futures, results, sorted_data,
                 posts, status>>

\* Lines 32-44: check_calendar.
CheckCalendar(day) ==
  /\ pc = "calendar"
  /\ IF day = "open"
     THEN pc' = "fetch" /\ UNCHANGED exit_code
     ELSE pc' = "exited" /\ exit_code' = Exit(0)
  /\ UNCHANGED <<page, target_list, task, info, futures, results, sorted_data,
                 posts, status>>

\* Lines 230-238: fetch_target_list, then every pair is submitted to the pool.
FetchTargetList(p) ==
  /\ pc = "fetch"
  /\ page' = p
  /\ IF fetch_target_list(p).t = "exit"
     THEN /\ pc' = "exited"
          /\ exit_code' = fetch_target_list(p)
          /\ UNCHANGED <<target_list, task, info, futures>>
     ELSE /\ pc' = "map"
          /\ target_list' = fetch_target_list(p).v
          /\ task' = [i \in 1..Len(fetch_target_list(p).v) |-> "queued"]
          /\ info' = [i \in 1..Len(fetch_target_list(p).v) |-> NoStock]
          /\ futures' = [i \in 1..Len(fetch_target_list(p).v) |-> Pending]
          /\ UNCHANGED exit_code
  /\ UNCHANGED <<results, sorted_data, posts, status>>

\* A free worker thread takes the oldest queued item.
StartTask(i) ==
  /\ pc = "map"
  /\ task[i] = "queued"
  /\ \A j \in 1..(i - 1) : task[j] # "queued"
  /\ Cardinality(Running) < max_workers
  /\ task' = [task EXCEPT ![i] = "running"]
  /\ UNCHANGED <<pc, exit_code, page, target_list, info, futures, results,
                 sorted_data, posts, status>>

\* A worker's analyze_stock call returns (or raises) for item i.
FinishTask(i, stock) ==
  /\ pc = "map"
  /\ task[i] = "running"
  /\ task' = [task EXCEPT ![i] = "done"]
  /\ info' = [info EXCEPT ![i] = stock]
  /\ futures' = [futures EXCEPT ![i] = analyze_stock(target_list[i], stock)]
  /\ UNCHANGED <<pc, exit_code, page, target_list, results, sorted_data,
                 posts, status>>

\* Lines 238-252: the map's results are collected; an exception of a worker
\* is re-raised here and ends the process (status 1); no result ends it
\* with status 0; otherwise the results are sorted for build_payload.
Collect ==
  /\ pc = "map"
  /\ AllDone
  /\ IF \E i \in Items : futures[i] = Raise
     THEN /\ pc' = "exited"
          /\ exit_code' = Exit(1)
          /\ UNCHANGED <<results, sorted_data>>
     ELSE /\ results' = NotNone(futures)
          /\ IF IsEmpty(NotNone(futures))
             THEN /\ pc' = "exited"
                  /\ exit_code' = Exit(0)
                  /\ UNCHANGED sorted_data
             ELSE /\ pc' = "publish"
                  /\ sorted_data' = SortedDesc(NotNone(futures))
                  /\ UNCHANGED exit_code
  /\ UNCHANGED <<page, target_list, task, info, futures, posts, status>>

\* Lines 197-224 and the end of the script: sync_remote_node.
Publish(answer) ==
  /\ pc = "publish"
  /\ posts' = posts + Attempts(answer)
  /\ status' = answer
  /\ pc' = "exited"
  /\ exit_code' = IF answer # ConnectionError /\ SyncOk(answer) THEN Exit(0)
                  ELSE Exit(1)
  /\ UNCHANGED <<page, target_list, task, info, futures, results, sorted_data>>

Next ==
  \/ \E cfg \in {"ok", "missing", "malformed"} : LoadConfig(cfg)
  \/ \E day \in {"open", "weekend", "holiday"} : CheckCalendar(day)
  \/ \E p \in RunPages : FetchTargetList(p)
  \/ \E i \in Items : StartTask(i)
  \/ \E i \in Items : \E stock \in RunStocks : FinishTask(i, stock)
  \/ Collect
  \/ \E answer \in Answers : Publish(answer)

Spec == Init /\ [][Next]_vars

\* fetch_target_list on its own, over every page of up to MaxTables tables.
InitUniverse ==
  /\ pc = "fetch"
  /\ exit_code = NoExit
  /\ page = NoPage
  /\ target_list = <<>>
  /\ task = <<>>
  /\ info = <<>>
  /\ futures = <<>>
  /\ results = <<>>
  /\ sorted_data = <<>>
  /\ posts = 0
  /\ status = NoStatus

NextUniverse == \E p \in Pages : FetchTargetList(p)

SpecUniverse == InitUniverse /\ [][NextUniverse]_vars

\* analyze_stock on its own: one equity whose task a worker has taken, for
\* every combination of the provider's fields (info[1] holds the answer the
\* provider is about to give).
InitValuation ==
  /\ pc = "map"
  /\ exit_code = NoExit
  /\ page = Page(<<CodeTable(1)>>)
  /\ target_list = fetch_target_list(Page(<<CodeTable(1)>>)).v
  /\ task = <<"running">>
  /\ info \in {<<stock>> : stock \in AllStocks}
  /\ futures = <<Pending>>
  /\ results = <<>>
  /\ sorted_data = <<>>
  /\ posts = 0
  /\ status = NoStatus

NextValuation == FinishTask(1, info[1])

SpecValuation == InitValuation /\ [][NextValuation]_vars

\* ------------------------------------------------------------ properties

Done(i) == i \in DOMAIN task /\ task[i] = "done"

\* The fetched dict of item i (meaningful when the fetch did not raise).
Fields(i) == info[i].info

Absent(d, key) == d[key] = None \/ d[key] = Missing

\* The claims' E: forwardEps if present, else trailingEps.
ClaimEps(d) == IF Absent(d, "forwardEps") THEN d.trailingEps ELSE d.forwardEps

\* The claims' raw growth, in hundredths.
ClaimGrowthRaw(d) ==
  IF ~Absent(d, "earningsGrowth") THEN d.earningsGrowth.v
  ELSE IF ~Absent(d, "revenueGrowth") THEN d.revenueGrowth.v
  ELSE 5

\* The claims' G: the growth percentage clamped into [0, 25].
ClaimG(d) ==
  IF ClaimGrowthRaw(d) < 0 THEN 0
  ELSE IF ClaimGrowthRaw(d) > 25 THEN 25
  ELSE ClaimGrowthRaw(d)

\* The claims' Y: the dividend yield as a percentage, 0 if absent.
ClaimY(d) == IF Absent(d, "dividendYield") THEN 0 ELSE d.dividendYield.v

ClaimFair(d) == ClaimEps(d).v * (ClaimG(d) + ClaimY(d))

\* Every field the formula reads is a number, EPS > 0, fair value > 0 and
\* the price is not 0: the upside is computed.
UpsideComputed(i) ==
  /\ ~info[i].raises
  /\ IsNum(Fields(i).currentPrice) /\ Fields(i).currentPrice.v # 0
  /\ IsNum(ClaimEps(Fields(i))) /\ ClaimEps(Fields(i)).v > 0
  /\ Absent(Fields(i), "earningsGrowth") \/ IsNum(Fields(i).earningsGrowth)
  /\ ~Absent(Fields(i), "earningsGrowth") \/ Absent(Fields(i), "revenueGrowth")
       \/ IsNum(Fields(i).revenueGrowth)
  /\ Absent(Fields(i), "dividendYield") \/ IsNum(Fields(i).dividendYield)
  /\ ClaimFair(Fields(i)) > 0

ClaimUpside(i) ==
  Frac((ClaimFair(Fields(i)) - Fields(i).currentPrice.v) * 100,
       Fields(i).currentPrice.v)

\* C1: every present result's target is E x (G + Y), with E the forward EPS
\* if present else the trailing EPS, G the growth percentage (earnings, else
\* revenue, else the 5% default) clamped into [0, 25], and Y the dividend
\* yield percentage (0 if absent).
C1_FairValueFormula ==
  \A i \in DOMAIN futures :
    (Done(i) /\ futures[i].t = "result") =>
      /\ futures[i].target = ClaimFair(Fields(i))
      /\ ClaimG(Fields(i)) >= 0 /\ ClaimG(Fields(i)) <= 25

\* A result computed from a negative raw growth (floored to 0) with the
\* trailing EPS standing in for an absent forward EPS.
C1_Witness ==
  /\ Done(1) /\ futures[1].t = "result"
  /\ Fields(1).earningsGrowth = Num(-10)
  /\ Fields(1).forwardEps = None
  /\ futures[1].target = 3 * 20

\* C2: a resolved EPS (forwardEps when present, trailingEps only when it is
\* absent) that is missing or <= 0 yields None, also when forwardEps <= 0
\* and trailingEps > 0.
C2_NonPositiveEpsAbsent ==
  \A i \in DOMAIN futures :
    (Done(i) /\ ~info[i].raises
       /\ (\/ Absent(Fields(i), "forwardEps") /\ Absent(Fields(i), "trailingEps")
           \/ IsNum(ClaimEps(Fields(i))) /\ ClaimEps(Fields(i)).v <= 0))
      => futures[i] = None

\* forwardEps = -1 with trailingEps = 3 and every other field valid: None.
C2_Witness ==
  /\ Done(1) /\ futures[1] = None
  /\ Fields(1) = Dict(Num(100), Num(-1), Num(3), Num(7), None, Num(2))

\* C3: every result has price > 0 and fair value > 0.
C3_PositivePriceAndFairValue ==
  \A i \in DOMAIN futures :
    (Done(i) /\ futures[i].t = "result") =>
      futures[i].val > 0 /\ futures[i].target > 0

\* C4: a computed upside above 1000 yields None, so every result has an
\* upside <= 1000; an upside at or below 1000, however negative, yields a
\* result.
C4_UpsideLimit ==
  \A i \in DOMAIN futures :
    Done(i) =>
      /\ futures[i].t = "result" => ~FracGT(futures[i].diff, Frac(1000, 1))
      /\ (UpsideComputed(i) /\ FracGT(ClaimUpside(i), Frac(1000, 1)))
           => futures[i] = None
      /\ (UpsideComputed(i) /\ ~FracGT(ClaimUpside(i), Frac(1000, 1)))
           => (futures[i].t = "result" /\ futures[i].diff = ClaimUpside(i))

\* Price 1 against a fair value of 1350: the upside is 134900 and the
\* valuation is None.
C4_Witness ==
  /\ Done(1) /\ futures[1] = None
  /\ Fields(1) = Dict(Num(1), Num(50), None, Num(30), None, Num(2))
  /\ UpsideComputed(1)

\* The universe fetch returned a list (the run went on to the fan-out).
Fetched == fetch_target_list(page).t = "list"

\* The present results in the order of the universe list.
ClaimPresent == SelectSeq(futures, LAMBDA f : f # None)

ClaimAbsentCount == Cardinality({i \in DOMAIN futures : futures[i] = None})

SameUpside(rs, u) == SelectSeq(rs, LAMBDA r : r.diff = u)

\* C5: the renderer receives exactly the N - M present results, in
\* descending order of upside, equal upsides in universe order, whatever the
\* order in which the workers finished.
C5_SortedPresentResults ==
  (pc = "publish" \/ posts > 0) =>
    /\ Len(sorted_data) = Len(target_list) - ClaimAbsentCount
    /\ \A a, b \in 1..Len(sorted_data) :
         a < b => FracGE(sorted_data[a].diff, sorted_data[b].diff)
    /\ \A a \in 1..Len(sorted_data) :
         SameUpside(sorted_data, sorted_data[a].diff)
           = SameUpside(ClaimPresent, sorted_data[a].diff)

\* Two equal upsides behind a lower one in the universe, and an absent item.
C5_Witness ==
  /\ pc = "publish"
  /\ Len(target_list) >= 4
  /\ \E i \in DOMAIN futures : futures[i] = None
  /\ futures[1].t = "result" /\ futures[3].t = "result" /\ futures[4].t = "result"
  /\ FracGT(futures[3].diff, futures[1].diff)
  /\ futures[3].diff = futures[4].diff
  /\ sorted_data[1] = futures[3] /\ sorted_data[2] = futures[4]

\* C6: analyze_stock gives a result or None and never lets an exception
\* escape, so after a successful universe fetch the run ends only once every
\* equity is valued, and ends with status 1 only through the publish step.
C6_FailureIsAbsence ==
  /\ \A i \in DOMAIN futures :
       /\ futures[i] # Raise
       /\ Done(i) => (futures[i] = None \/ futures[i].t = "result")
  /\ (pc = "exited" /\ Fetched) =>
       /\ \A i \in DOMAIN task : Done(i)
       /\ exit_code = Exit(1) => posts >= 1

\* A TypeError and a division by zero in two equities, a later equity
\* valued, and the report published.
C6_Witness ==
  /\ pc = "exited" /\ exit_code = Exit(0) /\ posts = 1
  /\ Len(target_list) >= 3
  /\ Fields(1).currentPrice = Str /\ futures[1] = None
  /\ Fields(2).currentPrice = Num(0) /\ futures[2] = None
  /\ futures[3].t = "result"

\* C7 as stated: any 2xx status ends the run with status 0, anything else
\* with status 1.
C7_Any2xxSucceeds ==
  (pc = "exited" /\ posts >= 1) =>
    IF status >= 200 /\ status < 300 THEN exit_code = Exit(0)
    ELSE exit_code = Exit(1)

\* C7 amended: status 200 exactly ends the run with status 0; any other
\* status (other 2xx included) or a connection failure ends it with 1.
C7_Only200Succeeds ==
  (pc = "exited" /\ posts >= 1) =>
    IF status = 200 THEN exit_code = Exit(0) ELSE exit_code = Exit(1)

\* The publish target answered 201 and the run ended with status 1.
C7_Witness ==
  pc = "exited" /\ posts = 1 /\ status = 201 /\ exit_code = Exit(1)

NoTableQualifies == \A k \in 1..Len(page.dfs) : ~Qualifies(page.dfs[k])

NothingAfterFetchExit ==
  /\ pc = "exited" /\ exit_code = Exit(1)
  /\ target_list = <<>> /\ task = <<>> /\ sorted_data = <<>> /\ posts = 0

\* C8 as stated: a fetch or parse error, or no qualifying table, ends the
\* run with a non-zero status and no list.
C8_NoQualifyingTableExits ==
  (pc # "fetch" /\ (page.raises \/ NoTableQualifies)) => NothingAfterFetchExit

\* The second parsed table can serve as the list.
HasFallback == Len(page.dfs) > 1 /\ page.dfs[2].ncols >= 2

\* C8 amended: a fetch or parse error ends the run with a non-zero status,
\* and so does the lack of a qualifying table unless a second table with at
\* least two columns was parsed; that table's rows are then the list.
C8_ExitsUnlessFallback ==
  pc # "fetch" =>
    /\ (page.raises \/ (NoTableQualifies /\ ~HasFallback))
         => NothingAfterFetchExit
    /\ (~page.raises /\ NoTableQualifies /\ HasFallback) =>
         /\ pc = "map" /\ exit_code = NoExit
         /\ Len(target_list) = Len(page.dfs[2].rows)
         /\ \A k \in 1..Len(target_list) :
              target_list[k][1] = ZFill4(AsStr(page.dfs[2].rows[k][1]))

\* No table qualifies, and the second table's two text rows are the list.
C8_Witness ==
  /\ page = Page(<<NavTable, NoteTable>>)
  /\ pc = "map"
  /\ Len(target_list) = 2
  /\ target_list[2][1] = <<"0", "0", "1", "3">>

\* C9: with no present result (every valuation None, or an empty universe)
\* the run ends with status 0 and without any POST.
C9_EmptyResultSoftStop ==
  (pc \in {"publish", "exited"} /\ Fetched
     /\ \A i \in DOMAIN futures : futures[i] = None)
    => (pc = "exited" /\ exit_code = Exit(0) /\ posts = 0)

\* Two equities, both absent, and the run over.
C9_Witness ==
  /\ pc = "exited" /\ exit_code = Exit(0) /\ posts = 0
  /\ Len(target_list) >= 2
  /\ \A i \in DOMAIN futures : Done(i) /\ futures[i] = None

\* C10: at most 4 items are in flight, the POST is issued at most once and
\* only after every valuation has completed, and a run that reached the
\* publish step has issued exactly one.
C10_SinglePostAfterJoin ==
  /\ Cardinality(Running) <= 4
  /\ posts <= 1
  /\ (pc = "publish" \/ posts >= 1) =>
       \A i \in DOMAIN task : Done(i) /\ futures[i] # Pending
  /\ (pc = "exited" /\ sorted_data # <<>>) => posts = 1

\* More equities than workers, a failed publish, and one POST.
C10_Witness ==
  /\ pc = "exited" /\ posts = 1 /\ status = 500
  /\ Len(target_list) > max_workers

====
